---- MODULE Spec2Model ----
(***************************************************************************)
(* Fleet simulator: NavGraph, Robot and FleetManager.                      *)
(*                                                                         *)
(* The model follows src/src/models/nav_graph.py, src/src/models/robot.py  *)
(* and src/src/controllers/fleet_manager.py; the differences of the copy   *)
(* of these classes in src/src/gui/fleet_gui.py (update_waiting, the id    *)
(* comparison in the lane arbitration) are taken when gui = TRUE.          *)
(*                                                                         *)
(* Numbers.  progress is counted in steps of Robot.speed (0.05): progress  *)
(* k stands for the float reached by k additions of 0.05 to 0.0, and the   *)
(* test progress >= 1.0 first succeeds at k = 20 in IEEE doubles as well.  *)
(* battery is counted in tenths of a unit (the drain 0.1 is 1).  x and y   *)
(* are counted in 1/20 of the level's length unit, so that the linear      *)
(* interpolation along a lane stays integral.                              *)
(***************************************************************************)
EXTENDS Integers, Sequences, FiniteSets, TLC

\* ---------------------------------------------------------------- bounds
MaxRobots == 3      \* robots spawned
MaxAssigns == 3     \* tasks given (successful assign_task calls)
MaxVertices == 4    \* vertices of a graph given to find_shortest_path
MaxLanes == 3       \* lanes of such a graph
MaxClients == 2     \* robots that call the TrafficManager
MaxPathVertices == 2 \* vertex indices their paths are made of
MaxPathLen == 4      \* vertices of such a path
MaxLevels == 2      \* levels of a file given to load_from_json

\* ------------------------------------------------------ program constants
LaneSteps == 20          \* 1 / Robot.speed
BatteryUnit == 10        \* tenths: the drain of 0.1 is one step
DrainRate == 1
FullBattery == 100 * BatteryUnit
LowBattery == 20 * BatteryUnit
ChargeBelow == 50 * BatteryUnit
ChargeStep == 1 * BatteryUnit
ChargedAt == 95 * BatteryUnit
WaitTimeout == 5

None == 0 - 1
NoLane == << >>

\* F(v), with v evaluated once however often F uses it.
Then(v, F(_)) == CHOOSE out \in {F(x) : x \in {v}} : TRUE

\* ----------------------------------------------------------------- levels
\* A level as the file holds it: vertices [x, y, attributes] and lanes
\* [start, end, attributes]; is_charger is written only where it is true.
FileVertex(v) ==
    << v.x, v.y, IF v.is_charger THEN [is_charger |-> TRUE] ELSE << >> >>

FileLane(l) == << l.start_idx, l.end_idx, << >> >>

FileOf(g) ==
    [vertices |-> [i \in 1 .. Len(g.vertices) |-> FileVertex(g.vertices[i])],
     lanes |-> [k \in 1 .. Len(g.lanes) |-> FileLane(g.lanes[k])]]

\* A level as NavGraph.load_level leaves it: vertices and lanes in file order.
Vtx(x, y, c) == [x |-> x * LaneSteps, y |-> y * LaneSteps, is_charger |-> c]
Lane(s, e) == [start_idx |-> s, end_idx |-> e]

\* The line 0 - 1 - 2 without chargers.
LineLevel ==
    [vertices |-> << Vtx(0, 0, FALSE), Vtx(1, 0, FALSE), Vtx(2, 0, FALSE) >>,
     lanes |-> << Lane(0, 1), Lane(1, 2) >>]

\* One lane between a charger, vertex 0, and vertex 1.
ChargerLevel ==
    [vertices |-> << Vtx(0, 0, TRUE), Vtx(1, 0, FALSE) >>,
     lanes |-> << Lane(0, 1) >>]

\* The line 0 - 1 - 2 with a charger at vertex 0: a robot can shuttle between
\* 1 and 2 without passing the charger.
ShuttleLevel ==
    [vertices |-> << Vtx(0, 0, TRUE), Vtx(1, 0, FALSE), Vtx(2, 0, FALSE) >>,
     lanes |-> << Lane(0, 1), Lane(1, 2) >>]

\* The line 0 - 1 - 2 and a charger, vertex 3, that no lane reaches.
IslandLevel ==
    [vertices |-> << Vtx(0, 0, FALSE), Vtx(1, 0, FALSE), Vtx(2, 0, FALSE),
                     Vtx(1, 1, TRUE) >>,
     lanes |-> << Lane(0, 1), Lane(1, 2) >>]

Levels == << LineLevel, ChargerLevel, ShuttleLevel, IslandLevel >>

\* Two vertices and a lane whose end is no vertex of the level.
CorruptLevel ==
    [vertices |-> << Vtx(0, 0, FALSE), Vtx(1, 0, FALSE) >>,
     lanes |-> << Lane(0, 5) >>]

\* The levels a file may hold.
LevelPool == Levels \o << CorruptLevel >>

NumVertices(g) == Len(g.vertices)
VertexIdx(g) == 0 .. (NumVertices(g) - 1)
Vertex(g, i) == g.vertices[i + 1]

\* ------------------------------------------------------------- NavGraph
RECURSIVE AdjacentFrom(_, _, _)
AdjacentFrom(g, v, k) ==
    IF k > Len(g.lanes) THEN << >>
    ELSE LET lane == g.lanes[k]
             rest == AdjacentFrom(g, v, k + 1)
         IN  IF lane.start_idx = v THEN << lane.end_idx >> \o rest
             ELSE IF lane.end_idx = v THEN << lane.start_idx >> \o rest
             ELSE rest

get_adjacent_vertices(g, v) == AdjacentFrom(g, v, 1)

\* float('inf'): larger than every hop count, and Inf + 1 < d fails for every
\* distance d <= Inf, as inf + 1 < d does.
Inf(g) == NumVertices(g) + 1

\* Mutant: the vertex visited next is the one of greatest distance.
MaxUnvisited(unvisited, dist) ==
    CHOOSE c \in unvisited :
        \A o \in unvisited : dist[c] > dist[o] \/ (dist[c] = dist[o] /\ c <= o)

\* min(unvisited, key=distances): the first vertex of least distance in the
\* set's iteration order, which for a set of small ints is ascending.
MinUnvisited(unvisited, dist) ==
    CHOOSE c \in unvisited :
        \A o \in unvisited : dist[c] < dist[o] \/ (dist[c] = dist[o] /\ c <= o)

RECURSIVE RelaxNeighbors(_, _, _, _, _, _)
RelaxNeighbors(adj, k, current, dist, prev, unvisited) ==
    IF k > Len(adj) THEN [dist |-> dist, prev |-> prev]
    ELSE LET n == adj[k]
             new_dist == dist[current] + 1
         IN  IF n \in unvisited /\ new_dist < dist[n]
             THEN RelaxNeighbors(adj, k + 1, current,
                                 [dist EXCEPT ![n] = new_dist],
                                 [prev EXCEPT ![n] = current], unvisited)
             ELSE RelaxNeighbors(adj, k + 1, current, dist, prev, unvisited)

RECURSIVE DijkstraLoop(_, _, _, _, _)
DijkstraLoop(g, end_idx, dist, prev, unvisited) ==
    IF unvisited = {} THEN [dist |-> dist, prev |-> prev]
    ELSE LET current == MinUnvisited(unvisited, dist)
             left == unvisited \ {current}
         IN  IF current = end_idx THEN [dist |-> dist, prev |-> prev]
             ELSE LET r == RelaxNeighbors(get_adjacent_vertices(g, current), 1,
                                          current, dist, prev, left)
                  IN  DijkstraLoop(g, end_idx, r.dist, r.prev, left)

\* The reconstruction loop, before path.reverse(): end, previous[end], ...
RECURSIVE BackPath(_, _)
BackPath(prev, current) ==
    IF prev[current] = None THEN << >>
    ELSE << current >> \o BackPath(prev, prev[current])

Reverse(s) == [i \in 1 .. Len(s) |-> s[Len(s) + 1 - i]]

\* Mutant: the path is returned whether or not the end was reached.
find_shortest_path_unchecked(g, start_idx, end_idx) ==
    IF start_idx = end_idx THEN << start_idx >>
    ELSE LET dist0 == [v \in VertexIdx(g) |-> IF v = start_idx THEN 0 ELSE Inf(g)]
             prev0 == [v \in VertexIdx(g) |-> None]
             r == DijkstraLoop(g, end_idx, dist0, prev0, VertexIdx(g))
         IN  Reverse(BackPath(r.prev, end_idx) \o << start_idx >>)

find_shortest_path(g, start_idx, end_idx) ==
    IF start_idx = end_idx THEN << start_idx >>
    ELSE LET dist0 == [v \in VertexIdx(g) |-> IF v = start_idx THEN 0 ELSE Inf(g)]
             prev0 == [v \in VertexIdx(g) |-> None]
             r == DijkstraLoop(g, end_idx, dist0, prev0, VertexIdx(g))
             path == Reverse(BackPath(r.prev, end_idx) \o << start_idx >>)
         IN  IF r.dist[end_idx] # Inf(g) THEN path ELSE << >>

\* find_shortest_path is a pure function of the level: its results on the
\* levels above, computed once.
Paths ==
    [l \in DOMAIN Levels |->
        [s \in VertexIdx(Levels[l]) |->
            [e \in VertexIdx(Levels[l]) |-> find_shortest_path(Levels[l], s, e)]]]

LevelOf(g) == CHOOSE l \in DOMAIN Levels : Levels[l] = g

\* nav_graph.find_shortest_path(start, end) as a robot calls it.
ShortestPath(g, start_idx, end_idx) == Paths[LevelOf(g)][start_idx][end_idx]

\* attributes.get(key, default)
Get(attributes, key, default) ==
    IF key \in DOMAIN attributes THEN attributes[key] ELSE default

\* The "Load vertices" loop of load_level from item k of the level's data on.
RECURSIVE LoadVertices(_, _, _)
LoadVertices(vertices, data, k) ==
    IF k > Len(data) THEN vertices
    ELSE LoadVertices(Append(vertices,
                             [x |-> data[k][1], y |-> data[k][2],
                              is_charger |-> Get(data[k][3], "is_charger", FALSE)]),
                      data, k + 1)

\* The "Load lanes" loop.
RECURSIVE LoadLanes(_, _, _)
LoadLanes(lanes, data, k) ==
    IF k > Len(data) THEN lanes
    ELSE LoadLanes(Append(lanes, [start_idx |-> data[k][1],
                                  end_idx |-> data[k][2]]),
                   data, k + 1)

\* Mutant: load_level without its two clear() calls.
load_level_unclear(n, level_name) ==
    IF level_name \notin DOMAIN n.levels THEN [nav |-> n, raised |-> TRUE]
    ELSE LET level_data == n.levels[level_name]
         IN  [nav |-> [n EXCEPT !.graph =
                          [vertices |-> LoadVertices(n.graph.vertices,
                                                     level_data.vertices, 1),
                           lanes |-> LoadLanes(n.graph.lanes,
                                               level_data.lanes, 1)]],
              raised |-> FALSE]

\* NavGraph.load_level on the NavGraph n: the NavGraph afterwards, and whether
\* the call raised (ValueError).
load_level(n, level_name) ==
    IF level_name \notin DOMAIN n.levels THEN [nav |-> n, raised |-> TRUE]
    ELSE LET level_data == n.levels[level_name]
         IN  [nav |-> [n EXCEPT !.graph =
                          [vertices |-> LoadVertices(<< >>, level_data.vertices, 1),
                           lanes |-> LoadLanes(<< >>, level_data.lanes, 1)]],
              raised |-> FALSE]

\* ------------------------------------------------------------------ Robot
Event(id, what) == [robot |-> id, what |-> what]

\* Robot.__init__ followed by FleetManager.spawn_robot's current_vertex_idx.
NewRobot(id, g, v) ==
    [id |-> id, x |-> Vertex(g, v).x, y |-> Vertex(g, v).y, status |-> "IDLE",
     current_vertex_idx |-> v, destination_vertex_idx |-> None, path |-> << >>,
     progress |-> 0, current_lane |-> NoLane, log |-> << >>,
     battery |-> FullBattery, waiting_since |-> None]

\* Whether some lane joins a and b, in either direction.
HasLane(g, a, b) ==
    \E k \in 1 .. Len(g.lanes) :
        \/ g.lanes[k].start_idx = a /\ g.lanes[k].end_idx = b
        \/ g.lanes[k].end_idx = a /\ g.lanes[k].start_idx = b

\* Mutant: the next lane is taken without progress being reset.
move_to_next_vertex_unreset(r, g) ==
    IF Len(r.path) < 2
    THEN [r EXCEPT !.status = "TASK_COMPLETE", !.destination_vertex_idx = None]
    ELSE LET start_idx == r.path[1]
             end_idx == r.path[2]
         IN  [r EXCEPT !.current_lane = IF HasLane(g, start_idx, end_idx)
                                        THEN << start_idx, end_idx >>
                                        ELSE r.current_lane,
                       !.current_vertex_idx = start_idx,
                       !.path = Tail(r.path)]

\* Mutant: the robot is put at the far end of the lane it takes.
move_to_next_vertex_ahead(r, g) ==
    IF Len(r.path) < 2
    THEN [r EXCEPT !.status = "TASK_COMPLETE", !.destination_vertex_idx = None]
    ELSE LET start_idx == r.path[1]
             end_idx == r.path[2]
         IN  [r EXCEPT !.current_lane = IF HasLane(g, start_idx, end_idx)
                                        THEN << start_idx, end_idx >>
                                        ELSE r.current_lane,
                       !.progress = 0,
                       !.current_vertex_idx = end_idx,
                       !.path = Tail(r.path)]

move_to_next_vertex(r, g) ==
    IF Len(r.path) < 2
    THEN [r EXCEPT !.status = "TASK_COMPLETE", !.destination_vertex_idx = None]
    ELSE LET start_idx == r.path[1]
             end_idx == r.path[2]
         IN  [r EXCEPT !.current_lane = IF HasLane(g, start_idx, end_idx)
                                        THEN << start_idx, end_idx >>
                                        ELSE r.current_lane,
                       !.progress = 0,
                       !.current_vertex_idx = start_idx,
                       !.path = Tail(r.path)]

\* Robot.assign_task: the robot afterwards and the value returned.
robot_assign_task(r, destination_idx, g) ==
    IF r.status = "CHARGING" THEN [robot |-> r, ok |-> FALSE]
    ELSE IF r.current_vertex_idx = None THEN [robot |-> r, ok |-> FALSE]
    ELSE LET path == ShortestPath(g, r.current_vertex_idx, destination_idx)
             r1 == [r EXCEPT !.destination_vertex_idx = destination_idx,
                             !.path = path]
         IN  IF path = << >> THEN [robot |-> r1, ok |-> FALSE]
             ELSE LET r2 == move_to_next_vertex([r1 EXCEPT !.status = "MOVING"], g)
                  IN  [robot |-> [r2 EXCEPT !.log = Append(r2.log,
                                      Event(r.id, "assigned"))],
                       ok |-> TRUE]

\* The squared distance orders the chargers as the distance does.
distance_to_vertex(r, g, v) ==
    (r.x - Vertex(g, v).x) * (r.x - Vertex(g, v).x)
        + (r.y - Vertex(g, v).y) * (r.y - Vertex(g, v).y)

Chargers(g) == {v \in VertexIdx(g) : Vertex(g, v).is_charger}

\* min(chargers, key=distance): the first charger of least distance.
NearestCharger(r, g) ==
    CHOOSE c \in Chargers(g) :
        \A o \in Chargers(g) :
            \/ distance_to_vertex(r, g, c) < distance_to_vertex(r, g, o)
            \/ distance_to_vertex(r, g, c) = distance_to_vertex(r, g, o) /\ c <= o

Max(a, b) == IF a >= b THEN a ELSE b
Min(a, b) == IF a <= b THEN a ELSE b

\* Mutant: the drain without its floor.
DrainUnfloored(battery) == battery - DrainRate

\* max(0, battery - 0.1)
Drain(battery) == Max(0, battery - DrainRate)

\* The low-battery reroute of update_position; the GUI's copy logs the failure.
Reroute(r, g, isGui) ==
    IF Chargers(g) = {} THEN r
    ELSE LET nearest == NearestCharger(r, g)
             a == robot_assign_task(r, nearest, g)
         IN  IF isGui /\ ~a.ok
             THEN [a.robot EXCEPT !.log = Append(a.robot.log,
                                      Event(r.id, "reroute_failed"))]
             ELSE [a.robot EXCEPT !.log = Append(a.robot.log,
                                      Event(r.id, "low_battery_reroute"))]

\* "Battery consumption" at the end of update_position.
Consume(r, g, isGui) ==
    IF r.status # "MOVING" THEN r
    ELSE Then([r EXCEPT !.battery = Drain(r.battery)],
              LAMBDA r1 : IF r1.battery < LowBattery
                          THEN Reroute(r1, g, isGui) ELSE r1)

\* Mutant: a robot that arrives at a charger charges whatever its battery.
ArriveAtAnyLevel(r, g) ==
    LET end_idx == r.current_lane[2]
        r1 == [r EXCEPT !.progress = 0, !.current_vertex_idx = end_idx,
                        !.x = Vertex(g, end_idx).x, !.y = Vertex(g, end_idx).y]
    IN  IF Vertex(g, end_idx).is_charger
        THEN [r1 EXCEPT !.status = "CHARGING",
                        !.log = Append(r1.log, Event(r.id, "started_charging"))]
        ELSE IF r1.path = << >>
        THEN [r1 EXCEPT !.status = "TASK_COMPLETE",
                        !.log = Append(r1.log, Event(r.id, "completed"))]
        ELSE move_to_next_vertex(r1, g)

\* The arrival branch of update_position (progress >= 1.0).
Arrive(r, g) ==
    LET end_idx == r.current_lane[2]
        r1 == [r EXCEPT !.progress = 0, !.current_vertex_idx = end_idx,
                        !.x = Vertex(g, end_idx).x, !.y = Vertex(g, end_idx).y]
    IN  IF Vertex(g, end_idx).is_charger /\ r1.battery < ChargeBelow
        THEN [r1 EXCEPT !.status = "CHARGING",
                        !.log = Append(r1.log, Event(r.id, "started_charging"))]
        ELSE IF r1.path = << >>
        THEN [r1 EXCEPT !.status = "TASK_COMPLETE",
                        !.log = Append(r1.log, Event(r.id, "completed"))]
        ELSE move_to_next_vertex(r1, g)

\* Linear interpolation between the lane's ends at progress p.
Interpolate(r, g, p) ==
    LET s == Vertex(g, r.current_lane[1])
        e == Vertex(g, r.current_lane[2])
    IN  [r EXCEPT !.progress = p,
                  !.x = s.x + ((e.x - s.x) * p) \div LaneSteps,
                  !.y = s.y + ((e.y - s.y) * p) \div LaneSteps]

\* Mutant: the arrival test is progress > 1.0, one step late.
TravelLate(r, g, isGui) ==
    IF r.current_lane = NoLane THEN move_to_next_vertex(r, g)
    ELSE LET p == r.progress + 1
             moved == IF p > LaneSteps THEN Arrive(r, g) ELSE Interpolate(r, g, p)
         IN  Then(moved, LAMBDA m : Consume(m, g, isGui))

\* update_position for a robot that is MOVING.
Travel(r, g, isGui) ==
    IF r.current_lane = NoLane THEN move_to_next_vertex(r, g)
    ELSE LET p == r.progress + 1
             moved == IF p >= LaneSteps THEN Arrive(r, g) ELSE Interpolate(r, g, p)
         IN  Then(moved, LAMBDA m : Consume(m, g, isGui))

\* Mutant: a robot that is WAITING keeps draining its battery.
update_position_idling(r, g, isGui) ==
    IF r.status = "WAITING" THEN [r EXCEPT !.battery = Drain(r.battery)]
    ELSE IF r.status # "MOVING" THEN r
    ELSE Travel(r, g, isGui)

\* Mutant: a robot that is WAITING travels as a MOVING one does.
update_position_waiting(r, g, isGui) ==
    IF r.status \notin {"MOVING", "WAITING"} THEN r ELSE Travel(r, g, isGui)

update_position(r, g, isGui) ==
    IF r.status # "MOVING" THEN r ELSE Travel(r, g, isGui)

\* min(100, battery + 1)
Charge(battery) == Min(FullBattery, battery + ChargeStep)

\* Mutant: charging ends at the level below which it starts.
update_charging_early(r) ==
    IF r.status # "CHARGING" THEN r
    ELSE LET r1 == [r EXCEPT !.battery = Charge(r.battery)]
         IN  IF r1.battery >= ChargeBelow
             THEN [r1 EXCEPT !.status = "IDLE",
                             !.log = Append(r1.log, Event(r.id, "finished_charging"))]
             ELSE r1

update_charging(r) ==
    IF r.status # "CHARGING" THEN r
    ELSE LET r1 == [r EXCEPT !.battery = Charge(r.battery)]
         IN  IF r1.battery >= ChargedAt
             THEN [r1 EXCEPT !.status = "IDLE",
                             !.log = Append(r1.log, Event(r.id, "finished_charging"))]
             ELSE r1

\* Robot.update_waiting (GUI).  waiting_since holds the time elapsed since the
\* stamp, saturating just above the timeout: the code reads the stamp only in
\* time.time() - waiting_since > 5.
update_waiting(r) ==
    IF r.status # "WAITING" THEN r
    ELSE IF r.waiting_since = None THEN [r EXCEPT !.waiting_since = 0]
    ELSE IF r.waiting_since > WaitTimeout
    THEN [r EXCEPT !.status = "IDLE", !.waiting_since = None,
                   !.log = Append(r.log, Event(r.id, "gave_up_waiting"))]
    ELSE r

\* dt more units of wall time have passed since the previous tick.
ClockAdvance(r, dt) ==
    IF r.waiting_since = None THEN r
    ELSE [r EXCEPT !.waiting_since = Min(WaitTimeout + 1, r.waiting_since + dt)]

\* ----------------------------------------------------------- FleetManager
VARIABLES
    level,              \* index in Levels of the level nav_graph holds
    gui,                \* TRUE: the classes of gui/fleet_gui.py
    robots,             \* FleetManager.robots
    robot_id_counter,
    occupied_vertices,  \* vertex index -> robots, for the keys the dict holds
    occupied_lanes,     \* lane key -> id of the robot holding it
    lastOp,             \* the operation that led here
    args,               \* the arguments it was called with
    ok,                 \* what it returned
    emitted,            \* what it handed to the logger
    pre,                \* robots before it
    mid,                \* robots when its lane arbitration began (tick only)
    task,               \* per robot: the last task FleetManager.assign_task gave
    assigns,            \* tasks given so far
    issued,             \* the highest robot id handed out so far
    nav,                \* a NavGraph and the last find_shortest_path call on it
    tm,                 \* a TrafficManager: reservations, intersection_queues
    tmCall,             \* the last call on it
    swap                \* how far the calls so far follow SwapScript

vars == << level, gui, robots, robot_id_counter, occupied_vertices,
           occupied_lanes, lastOp, args, ok, emitted, pre, mid, task, assigns,
           issued, nav, tm, tmCall, swap >>

Graph == Levels[level]

NoTask == [start |-> None, dest |-> None, age |-> 0, full |-> FALSE]
AgeCap == 3 * LaneSteps

\* TrafficManager.__init__: no reservation, no queue.
NoTraffic == [reservations |-> << >>, intersection_queues |-> << >>]

\* No call on the TrafficManager yet.  For a request, before is the manager
\* before it; for a release that undoes a request, the manager before that
\* request.
NoCall == [op |-> "none", robot |-> None, path |-> << >>, ok |-> TRUE,
           undoes |-> FALSE, before |-> NoTraffic]

\* No lone NavGraph is under test.
NoNav == [graph |-> [vertices |-> << >>, lanes |-> << >>], levels |-> << >>,
          start_idx |-> None, end_idx |-> None, path |-> << >>]

\* FleetManager.__init__ on a loaded level: no robot yet.
InitFleet ==
    /\ nav = NoNav
    /\ tm = NoTraffic
    /\ tmCall = NoCall
    /\ level \in 1 .. Len(Levels)
    /\ gui \in BOOLEAN
    /\ robots = << >>
    /\ robot_id_counter = 1
    /\ occupied_vertices = << >>
    /\ occupied_lanes = << >>
    /\ lastOp = "init"
    /\ args = << >>
    /\ ok = TRUE
    /\ emitted = << >>
    /\ pre = << >>
    /\ mid = << >>
    /\ task = << >>
    /\ assigns = 0
    /\ issued = 0
    /\ swap = [stage |-> 0, contended |-> FALSE]

\* Mutant: every vertex is exempt, as a charger is.
is_vertex_occupied_exempt(occ, g, v) == FALSE

is_vertex_occupied(occ, g, v) ==
    IF v \notin DOMAIN occ THEN FALSE
    ELSE IF Vertex(g, v).is_charger THEN FALSE
    ELSE Len(occ[v]) > 0

\* A dict with key k set to val.
Put(d, k, val) == [j \in DOMAIN d \cup {k} |-> IF j = k THEN val ELSE d[j]]

\* The outcome of an operation, for the actions below.
Outcome(rs, ctr, occV, occL, res, out) ==
    [robots |-> rs, robot_id_counter |-> ctr, occupied_vertices |-> occV,
     occupied_lanes |-> occL, ok |-> res, emitted |-> out]

Rejected == Outcome(robots, robot_id_counter, occupied_vertices,
                    occupied_lanes, FALSE, << >>)

\* Mutant: the new robot is not entered in occupied_vertices.
spawn_robot_unregistered(vertex_idx) ==
    IF vertex_idx < 0 \/ vertex_idx >= NumVertices(Graph) THEN Rejected
    ELSE IF is_vertex_occupied(occupied_vertices, Graph, vertex_idx) THEN Rejected
    ELSE LET robot == NewRobot(robot_id_counter, Graph, vertex_idx)
         IN  Outcome(Append(robots, robot), robot_id_counter + 1,
                     occupied_vertices, occupied_lanes, TRUE,
                     << Event(robot.id, "spawned") >>)

\* Mutant: the new robot is put at the head of the list.
spawn_robot_prepended(vertex_idx) ==
    IF vertex_idx < 0 \/ vertex_idx >= NumVertices(Graph) THEN Rejected
    ELSE IF is_vertex_occupied(occupied_vertices, Graph, vertex_idx) THEN Rejected
    ELSE LET robot == NewRobot(robot_id_counter, Graph, vertex_idx)
             here == IF vertex_idx \in DOMAIN occupied_vertices
                     THEN occupied_vertices[vertex_idx] ELSE << >>
         IN  Outcome(<< robot >> \o robots, robot_id_counter + 1,
                     Put(occupied_vertices, vertex_idx, Append(here, robot.id)),
                     occupied_lanes, TRUE,
                     << Event(robot.id, "spawned") >>)

spawn_robot(vertex_idx) ==
    IF vertex_idx < 0 \/ vertex_idx >= NumVertices(Graph) THEN Rejected
    ELSE IF is_vertex_occupied(occupied_vertices, Graph, vertex_idx) THEN Rejected
    ELSE LET robot == NewRobot(robot_id_counter, Graph, vertex_idx)
             here == IF vertex_idx \in DOMAIN occupied_vertices
                     THEN occupied_vertices[vertex_idx] ELSE << >>
         IN  Outcome(Append(robots, robot), robot_id_counter + 1,
                     Put(occupied_vertices, vertex_idx, Append(here, robot.id)),
                     occupied_lanes, TRUE,
                     << Event(robot.id, "spawned") >>)

\* next((r for r in self.robots if r.id == robot_id), None): its index, or 0.
FindRobot(rs, robot_id) ==
    IF \E i \in 1 .. Len(rs) : rs[i].id = robot_id
    THEN CHOOSE i \in 1 .. Len(rs) :
             rs[i].id = robot_id /\ \A j \in 1 .. (i - 1) : rs[j].id # robot_id
    ELSE 0

\* Mutant: the destination is not tested for occupancy.
assign_task_unoccupied(robot_id, destination_idx) ==
    LET i == FindRobot(robots, robot_id)
    IN  IF i = 0 THEN Rejected
        ELSE IF robots[i].current_vertex_idx = None THEN Rejected
        ELSE IF destination_idx < 0 \/ destination_idx >= NumVertices(Graph)
        THEN Rejected
        ELSE LET a == robot_assign_task(robots[i], destination_idx, Graph)
                 r == IF a.ok THEN [a.robot EXCEPT !.status = "MOVING"] ELSE a.robot
             IN  Outcome([robots EXCEPT ![i] = r], robot_id_counter,
                         occupied_vertices, occupied_lanes, a.ok, << >>)

assign_task(robot_id, destination_idx) ==
    LET i == FindRobot(robots, robot_id)
    IN  IF i = 0 THEN Rejected
        ELSE IF robots[i].current_vertex_idx = None THEN Rejected
        ELSE IF destination_idx < 0 \/ destination_idx >= NumVertices(Graph)
        THEN Rejected
        ELSE IF /\ ~Vertex(Graph, destination_idx).is_charger
                /\ is_vertex_occupied(occupied_vertices, Graph, destination_idx)
        THEN Rejected
        ELSE LET a == robot_assign_task(robots[i], destination_idx, Graph)
                 r == IF a.ok THEN [a.robot EXCEPT !.status = "MOVING"] ELSE a.robot
             IN  Outcome([robots EXCEPT ![i] = r], robot_id_counter,
                         occupied_vertices, occupied_lanes, a.ok, << >>)

\* Mutant: the key keeps the direction of travel (the sort is forgotten).
get_lane_key_unsorted(lane) == << lane[1], lane[2] >>

get_lane_key(lane) ==
    IF lane[1] <= lane[2] THEN << lane[1], lane[2] >> ELSE << lane[2], lane[1] >>

\* The first loop of update, for one robot.
UpdateRobot(r, g, isGui, dt) ==
    LET r0 == ClockAdvance(r, dt)
    IN  IF r0.current_vertex_idx # None /\ r0.current_vertex_idx >= NumVertices(g)
        THEN [r0 EXCEPT !.current_vertex_idx = None, !.status = "IDLE"]
        ELSE IF r0.status = "CHARGING" THEN update_charging(r0)
        ELSE IF r0.status = "WAITING"
        THEN IF isGui THEN update_waiting(r0) ELSE update_position(r0, g, isGui)
        ELSE IF r0.status = "MOVING" THEN update_position(r0, g, isGui)
        ELSE r0

\* The robots the first loop appends to occupied_vertices[v], in order.
RECURSIVE OccupantsFrom(_, _, _)
OccupantsFrom(rs, v, i) ==
    IF i > Len(rs) THEN << >>
    ELSE IF rs[i].current_vertex_idx = v
    THEN << rs[i].id >> \o OccupantsFrom(rs, v, i + 1)
    ELSE OccupantsFrom(rs, v, i + 1)

\* The holder's wait in the GUI's else branch: other_robot goes WAITING.
Demote(rs, other) ==
    [rs EXCEPT ![other].status = "WAITING",
               ![other].log = Append(rs[other].log, Event(rs[other].id, "waiting"))]

RECURSIVE Arbitrate(_, _, _, _)

\* Mutant: the robot examined takes the lane over and the holder waits.
ArbitrateLastWins(rs, occL, i, isGui) ==
    IF i > Len(rs) THEN [robots |-> rs, occupied_lanes |-> occL]
    ELSE IF rs[i].status = "MOVING" /\ rs[i].current_lane # NoLane
    THEN LET key == get_lane_key(rs[i].current_lane)
         IN  IF key \in DOMAIN occL /\ occL[key] # rs[i].id
             THEN Arbitrate(Demote(rs, FindRobot(rs, occL[key])),
                            Put(occL, key, rs[i].id), i + 1, isGui)
             ELSE Arbitrate(rs, Put(occL, key, rs[i].id), i + 1, isGui)
    ELSE Arbitrate(rs, occL, i + 1, isGui)

\* Mutant: a conflict settled frees the lane's entry, so that the next robot
\* on the lane finds it free.
ArbitratePairwise(rs, occL, i, isGui) ==
    IF i > Len(rs) THEN [robots |-> rs, occupied_lanes |-> occL]
    ELSE IF rs[i].status = "MOVING" /\ rs[i].current_lane # NoLane
    THEN LET key == get_lane_key(rs[i].current_lane)
         IN  IF key \in DOMAIN occL /\ occL[key] # rs[i].id
             THEN Arbitrate([rs EXCEPT ![i].status = "WAITING",
                                       ![i].log = Append(rs[i].log,
                                                         Event(rs[i].id, "waiting"))],
                            [k \in DOMAIN occL \ {key} |-> occL[k]], i + 1, isGui)
             ELSE Arbitrate(rs, Put(occL, key, rs[i].id), i + 1, isGui)
    ELSE Arbitrate(rs, occL, i + 1, isGui)

\* "Handle lane reservations": the second loop of update, from robot i on.
Arbitrate(rs, occL, i, isGui) ==
    IF i > Len(rs) THEN [robots |-> rs, occupied_lanes |-> occL]
    ELSE IF rs[i].status = "MOVING" /\ rs[i].current_lane # NoLane
    THEN LET key == get_lane_key(rs[i].current_lane)
         IN  IF key \in DOMAIN occL /\ occL[key] # rs[i].id
             THEN LET other == FindRobot(rs, occL[key])
                      waits == [rs EXCEPT ![i].status = "WAITING",
                                    ![i].log = Append(rs[i].log,
                                                      Event(rs[i].id, "waiting"))]
                  IN  IF ~isGui \/ rs[other].id < rs[i].id
                      THEN Arbitrate(waits, occL, i + 1, isGui)
                      ELSE Arbitrate(Demote(rs, other), occL, i + 1, isGui)
             ELSE Arbitrate(rs, Put(occL, key, rs[i].id), i + 1, isGui)
    ELSE Arbitrate(rs, occL, i + 1, isGui)

RECURSIVE DrainLogs(_, _)

\* Mutant: every update hands the logger a line of its own at the end.
DrainLogsHeartbeat(rs, i) ==
    IF i > Len(rs) THEN << Event(0, "updated") >>
    ELSE rs[i].log \o DrainLogs(rs, i + 1)

\* "Log updates": the lines handed to the logger, robot by robot.
DrainLogs(rs, i) ==
    IF i > Len(rs) THEN << >> ELSE rs[i].log \o DrainLogs(rs, i + 1)

\* The robots with their logs handed over and cleared ("Update logs").
ClearLogs(rs) == [i \in 1 .. Len(rs) |-> [rs[i] EXCEPT !.log = << >>]]

\* --------------------------------------------------------- TrafficManager
\* A robot stands for itself by its id: the code compares Robot objects, which
\* define no __eq__.  t is the pair of dicts the manager holds.
lane_key(current, next_vertex) ==
    IF current < next_vertex THEN << current, next_vertex >>
    ELSE << next_vertex, current >>

\* Mutant: a lane reserved by another robot passes for free.
LaneTakenIgnored(t, robot, key) == FALSE

\* lane_key in self.reservations and self.reservations[lane_key] != robot
LaneTaken(t, robot, key) ==
    key \in DOMAIN t.reservations /\ t.reservations[key] # robot

\* next_vertex in self.intersection_queues and self.intersection_queues[next_vertex]
QueuePending(t, v) ==
    v \in DOMAIN t.intersection_queues /\ t.intersection_queues[v] # << >>

\* Step i of the path fails the tests of the first loop of request_path.
StepBlocked(t, robot, path, i) ==
    \/ LaneTaken(t, robot, lane_key(path[i], path[i + 1]))
    \/ i < Len(path) - 1 /\ QueuePending(t, path[i + 1])

\* The first loop of request_path from step i on: no step fails.
RECURSIVE PathFree(_, _, _, _)
PathFree(t, robot, path, i) ==
    IF i > Len(path) - 1 THEN TRUE
    ELSE IF StepBlocked(t, robot, path, i) THEN FALSE
    ELSE PathFree(t, robot, path, i + 1)

\* One round of the second loop of request_path.
ReserveStep(t, robot, path, i) ==
    LET v == path[i + 1]
        queues == t.intersection_queues
        t1 == [t EXCEPT !.reservations =
                   Put(t.reservations, lane_key(path[i], v), robot)]
    IN  IF i < Len(path) - 1
        THEN [t1 EXCEPT !.intersection_queues =
                 Put(queues, v, Append(IF v \in DOMAIN queues THEN queues[v]
                                       ELSE << >>, robot))]
        ELSE t1

RECURSIVE ReserveFrom(_, _, _, _)
ReserveFrom(t, robot, path, i) ==
    IF i > Len(path) - 1 THEN t
    ELSE ReserveFrom(ReserveStep(t, robot, path, i), robot, path, i + 1)

\* Mutant: one loop that reserves each step as soon as it has passed the tests.
RECURSIVE EagerFrom(_, _, _, _)
EagerFrom(t, robot, path, i) ==
    IF i > Len(path) - 1 THEN [tm |-> t, ok |-> TRUE]
    ELSE IF StepBlocked(t, robot, path, i) THEN [tm |-> t, ok |-> FALSE]
    ELSE EagerFrom(ReserveStep(t, robot, path, i), robot, path, i + 1)

request_path_eager(t, robot, path) ==
    IF path = << >> THEN [tm |-> t, ok |-> FALSE]
    ELSE EagerFrom(t, robot, path, 1)

\* TrafficManager.request_path: the manager afterwards and the value returned.
request_path(t, robot, path) ==
    IF path = << >> THEN [tm |-> t, ok |-> FALSE]
    ELSE IF ~PathFree(t, robot, path, 1) THEN [tm |-> t, ok |-> FALSE]
    ELSE [tm |-> ReserveFrom(t, robot, path, 1), ok |-> TRUE]

\* del d[k]
Drop(d, k) == [j \in DOMAIN d \ {k} |-> d[j]]

\* robot in queue
InQueue(q, robot) == \E k \in DOMAIN q : q[k] = robot

\* list.remove: the first occurrence goes.
RECURSIVE RemoveFirst(_, _)
RemoveFirst(q, robot) ==
    IF q = << >> THEN q
    ELSE IF Head(q) = robot THEN Tail(q)
    ELSE << Head(q) >> \o RemoveFirst(Tail(q), robot)

\* Mutant: a reservation is released whoever holds it.
OwnedByAnyone(t, robot, key) == key \in DOMAIN t.reservations

\* lane_key in self.reservations and self.reservations[lane_key] == robot
Owned(t, robot, key) ==
    key \in DOMAIN t.reservations /\ t.reservations[key] = robot

\* One round of the loop of release_path.
ReleaseStep(t, robot, path, i) ==
    LET v == path[i + 1]
        key == lane_key(path[i], v)
        t1 == IF Owned(t, robot, key)
              THEN [t EXCEPT !.reservations = Drop(t.reservations, key)]
              ELSE t
    IN  IF /\ i < Len(path) - 1
           /\ v \in DOMAIN t1.intersection_queues
           /\ InQueue(t1.intersection_queues[v], robot)
        THEN [t1 EXCEPT !.intersection_queues[v] = RemoveFirst(@, robot)]
        ELSE t1

RECURSIVE ReleaseFrom(_, _, _, _)
ReleaseFrom(t, robot, path, i) ==
    IF i > Len(path) - 1 THEN t
    ELSE ReleaseFrom(ReleaseStep(t, robot, path, i), robot, path, i + 1)

\* TrafficManager.release_path
release_path(t, robot, path) == ReleaseFrom(t, robot, path, 1)

\* ---------------------------------------------------------------- actions
\* Two lanes with the same ends, whatever the direction of travel.
SameLane(a, b) == {a[1], a[2]} = {b[1], b[2]}

OnLane(r) == r.status = "MOVING" /\ r.current_lane # NoLane

\* Robots i and j both claimed one lane when the arbitration over rs began.
Contend(rs, i, j) ==
    /\ i # j /\ OnLane(rs[i]) /\ OnLane(rs[j])
    /\ SameLane(rs[i].current_lane, rs[j].current_lane)

\* The calls of the swap scenario, in order: spawn(0), spawn(2),
\* assignTask(1, 2), assignTask(2, 0); every later call is a tick.
SwapScript == << << "spawn", 0 >>, << "spawn", 2 >>,
                 << "assign", 1, 2 >>, << "assign", 2, 0 >> >>
Off == 0 - 1

\* The swap ghost after the call `call`; seen: this call was a tick in which
\* robots 1 and 2 claimed one lane and 1 kept MOVING while 2 went WAITING.
Followed(call, seen) ==
    IF swap.stage = Off THEN swap
    ELSE IF swap.stage < Len(SwapScript)
    THEN IF call = SwapScript[swap.stage + 1]
         THEN [swap EXCEPT !.stage = swap.stage + 1]
         ELSE [swap EXCEPT !.stage = Off]
    ELSE IF call = << "tick" >>
    THEN [swap EXCEPT !.contended = swap.contended \/ seen]
    ELSE [swap EXCEPT !.stage = Off]

\* The task ghost: one more tick given to a robot moving on its task.
Aged(t, r) ==
    IF r.status = "MOVING"
    THEN [t EXCEPT !.age = Min(AgeCap, t.age + 1)] ELSE t

Apply(o, op) ==
    /\ robots' = o.robots
    /\ robot_id_counter' = o.robot_id_counter
    /\ occupied_vertices' = o.occupied_vertices
    /\ occupied_lanes' = o.occupied_lanes
    /\ ok' = o.ok
    /\ emitted' = o.emitted
    /\ lastOp' = op
    /\ pre' = robots
    /\ UNCHANGED << level, gui, nav, tm, tmCall >>

SpawnRobot(v) ==
    LET o == spawn_robot(v)
    IN  /\ Apply(o, "spawn")
        /\ mid' = << >>
        /\ task' = IF o.ok THEN Append(task, NoTask) ELSE task
        /\ args' = << v >>
        /\ issued' = IF o.ok THEN Max(issued, robot_id_counter) ELSE issued
        /\ swap' = Followed(<< "spawn", v >>, FALSE)

AssignTask(id, d) ==
    LET o == assign_task(id, d)
        i == FindRobot(robots, id)
    IN  /\ Apply(o, "assign")
        /\ mid' = << >>
        /\ task' = IF o.ok
                   THEN [task EXCEPT ![i] = [start |-> robots[i].current_vertex_idx,
                                             dest |-> d, age |-> 0,
                                             full |-> robots[i].battery = FullBattery]]
                   ELSE task
        /\ args' = << id, d >>
        /\ UNCHANGED issued
        /\ swap' = Followed(<< "assign", id, d >>, FALSE)

\* The first robot at which the first loop of the core's update raises
\* TypeError, or 0: `robot.current_vertex_idx >= len(...)` with None on the
\* left (fleet_manager.py:85).  The GUI's copy tests `is not None` first.
RaisesAt(rs, isGui) ==
    IF isGui \/ \A i \in 1 .. Len(rs) : rs[i].current_vertex_idx # None THEN 0
    ELSE CHOOSE i \in 1 .. Len(rs) :
             /\ rs[i].current_vertex_idx = None
             /\ \A j \in 1 .. (i - 1) : rs[j].current_vertex_idx # None

\* FleetManager.update: the first loop leaves the robots as mid', the lane
\* arbitration starts from an empty occupied_lanes and works on mid'.  When
\* the first loop raises, the robots before the one it raised at have been
\* updated and recorded, the tables have been reset, and nothing else has
\* happened; ok is then FALSE.
Update(dt) ==
    /\ mid' = [i \in 1 .. Len(robots) |->
                  IF RaisesAt(robots, gui) # 0 /\ i >= RaisesAt(robots, gui)
                  THEN robots[i]
                  ELSE UpdateRobot(robots[i], Graph, gui, dt)]
    /\ occupied_vertices' =
           IF RaisesAt(robots, gui) = 0
           THEN [v \in VertexIdx(Graph) |-> OccupantsFrom(mid', v, 1)]
           ELSE [v \in VertexIdx(Graph) |->
                    OccupantsFrom(SubSeq(mid', 1, RaisesAt(robots, gui) - 1), v, 1)]
    /\ robots' = IF RaisesAt(robots, gui) = 0
                 THEN ClearLogs(Arbitrate(mid', << >>, 1, gui).robots)
                 ELSE mid'
    /\ occupied_lanes' = IF RaisesAt(robots, gui) = 0
                         THEN Arbitrate(mid', << >>, 1, gui).occupied_lanes
                         ELSE << >>
    /\ emitted' = IF RaisesAt(robots, gui) = 0
                  THEN DrainLogs(Arbitrate(mid', << >>, 1, gui).robots, 1)
                  ELSE << >>
    /\ ok' = (RaisesAt(robots, gui) = 0)
    /\ lastOp' = "tick"
    /\ args' = << >>
    /\ pre' = robots
    /\ task' = [i \in 1 .. Len(robots) |-> Aged(task[i], robots[i])]
    /\ swap' = Followed(<< "tick" >>,
                        /\ Len(robots) >= 2
                        /\ Contend(mid', 1, 2)
                        /\ robots'[1].status = "MOVING"
                        /\ robots'[2].status = "WAITING")
    /\ UNCHANGED << level, gui, robot_id_counter, issued, nav, tm,
                    tmCall >>

\* FleetGUI.change_level(l): NavGraph.load_level, then
\* FleetManager.reset_for_new_level.
ChangeLevel(l) ==
    /\ level' = l
    /\ robots' = << >>
    /\ robot_id_counter' = 1
    /\ occupied_vertices' = << >>
    /\ occupied_lanes' = << >>
    /\ lastOp' = "change_level"
    /\ args' = << l >>
    /\ ok' = TRUE
    /\ emitted' = << >>
    /\ pre' = robots
    /\ mid' = << >>
    /\ task' = << >>
    /\ swap' = [swap EXCEPT !.stage = Off]
    /\ UNCHANGED << gui, assigns, issued, nav, tm, tmCall >>

\* What the callers pass: every vertex index and the two just out of range,
\* every robot id and one that no robot has; the wall time between two ticks.
VertexInputs == (0 - 1) .. NumVertices(Graph)
RobotInputs == 1 .. (MaxRobots + 1)
ClockSteps == IF gui THEN {0, 3} ELSE {0}

\* Commands reach the coordinator between two ticks; the schedules explored
\* are those in which they arrive while every moving robot is at the start
\* or at the middle of its lane.
CommandGrid == LaneSteps \div 2
CommandPoint ==
    \A i \in 1 .. Len(robots) :
        robots[i].status = "MOVING" => robots[i].progress % CommandGrid = 0

SpawnUpTo(n) ==
    /\ Len(robots) < n
    /\ assigns <= MaxAssigns
    /\ CommandPoint
    /\ \E v \in VertexInputs : SpawnRobot(v)
    /\ UNCHANGED assigns

Spawn == SpawnUpTo(MaxRobots)

GiveTask(allowed) ==
    /\ allowed
    /\ CommandPoint
    /\ \E id \in RobotInputs, d \in VertexInputs : AssignTask(id, d)
    /\ assigns' = IF ok' THEN Min(MaxAssigns + 1, assigns + 1) ELSE assigns

Assign == GiveTask(assigns < MaxAssigns)

Tick ==
    /\ \E dt \in ClockSteps : Update(dt)
    /\ UNCHANGED assigns

Next == Spawn \/ Assign \/ Tick

\* At most MaxRobots robots and MaxAssigns tasks, on the line and on the
\* charger level, with the classes of either file.
Init == InitFleet /\ Graph \in {LineLevel, ChargerLevel}

Spec == Init /\ [][Next]_vars

\* The long run: on the charger level a robot that is alone is given a next
\* task whenever it is not moving (once it has had more than MaxAssigns tasks
\* it stays alone), so that its battery runs through its whole range.  The host drives update on
\* a fixed-period loop (FleetGUI.update re-arms itself with root.after), hence
\* the fairness of Tick.
InitCharger == InitFleet /\ Graph = ChargerLevel /\ gui = FALSE

AssignAlone ==
    GiveTask(\/ assigns < MaxAssigns
             \/ Len(robots) = 1 /\ robots[1].status # "MOVING")

NextCharger == Spawn \/ AssignAlone \/ Tick

SpecCharger == InitCharger /\ [][NextCharger]_vars /\ WF_vars(Tick)

\* One robot on the shuttle level, given a next task whenever it is not
\* moving, for as long as the host keeps ticking.
InitShuttle == InitFleet /\ Graph = ShuttleLevel /\ gui = FALSE

SpawnOne == SpawnUpTo(1)

AssignIdle == GiveTask(Len(robots) = 1 /\ robots[1].status # "MOVING")

NextShuttle == SpawnOne \/ AssignIdle \/ Tick

SpecShuttle == InitShuttle /\ [][NextShuttle]_vars /\ WF_vars(Tick)

\* One robot on the island level, with the classes of either file, given a
\* next task whenever it is not moving.
InitIsland == InitFleet /\ Graph = IslandLevel

NextIsland == SpawnOne \/ AssignIdle \/ Tick

SpecIsland == InitIsland /\ [][NextIsland]_vars

\* NavGraph.load_level(l) called on the coordinator's nav_graph, the fleet
\* left as it is.
ReplaceLevel(l) ==
    /\ level' = l
    /\ lastOp' = "load_level"
    /\ args' = << l >>
    /\ ok' = TRUE
    /\ emitted' = << >>
    /\ pre' = robots
    /\ mid' = << >>
    /\ swap' = [swap EXCEPT !.stage = Off]
    /\ UNCHANGED << gui, robots, robot_id_counter, occupied_vertices,
                    occupied_lanes, task, assigns, issued, nav, tm, tmCall >>

\* Robots are spawned and left idle while the level under them is replaced.
Reload == \E l \in DOMAIN Levels : l # level /\ ReplaceLevel(l)

NextShrink == Spawn \/ Tick \/ Reload

SpecShrink == InitFleet /\ [][NextShrink]_vars

\* Levels are switched between the calls; no task is given.
SwitchLevel == \E l \in DOMAIN Levels : ChangeLevel(l)

NextLevels == Spawn \/ Tick \/ SwitchLevel

SpecLevels == InitFleet /\ [][NextLevels]_vars

\* The graphs of at most MaxVertices vertices and MaxLanes lanes, a lane
\* joining any two vertices (or one vertex and itself) in either direction,
\* as load_level accepts them.
LanesOn(n) == {Lane(a, b) : a, b \in 0 .. (n - 1)}

LaneSeqs(n) == UNION {[1 .. k -> LanesOn(n)] : k \in 0 .. MaxLanes}

GraphsOn(n) ==
    {[vertices |-> [i \in 1 .. n |-> Vtx(i - 1, 0, FALSE)], lanes |-> ls] :
        ls \in LaneSeqs(n)}

Graphs == UNION {GraphsOn(n) : n \in 1 .. MaxVertices}

\* A NavGraph on its own: any of these graphs, and find_shortest_path called
\* on it with any two of its vertices.
InitPaths ==
    /\ InitFleet
    /\ level = 1
    /\ gui = FALSE

FleetVars == << level, gui, robots, robot_id_counter, occupied_vertices,
               occupied_lanes, lastOp, args, ok, emitted, pre, mid, task,
               assigns, issued, swap >>

LoadGraph ==
    /\ nav = NoNav
    /\ \E g \in Graphs : nav' = [NoNav EXCEPT !.graph = g]
    /\ UNCHANGED << FleetVars, tm, tmCall >>

FindPath ==
    /\ nav # NoNav
    /\ \E a, b \in VertexIdx(nav.graph) :
           nav' = [nav EXCEPT !.start_idx = a, !.end_idx = b,
                              !.path = find_shortest_path(nav.graph, a, b)]
    /\ UNCHANGED << FleetVars, tm, tmCall >>

NextPaths == LoadGraph \/ FindPath

SpecPaths == InitPaths /\ [][NextPaths]_vars

\* A TrafficManager on its own: MaxClients robots request and release paths
\* of at most MaxPathLen vertices drawn from MaxPathVertices vertex indices.
\* The manager never looks at its nav_graph, so any list of indices is a path.
InitTraffic == InitFleet /\ level = 1 /\ gui = FALSE

TrafficRobots == 1 .. MaxClients
PathVertices == 0 .. (MaxPathVertices - 1)
PathInputs == UNION {[1 .. n -> PathVertices] : n \in 0 .. MaxPathLen}

\* This release follows at once the successful request of the same path by
\* the same robot.
Undoing(robot, path) ==
    /\ tmCall.op = "request"
    /\ tmCall.ok
    /\ tmCall.robot = robot
    /\ tmCall.path = path

RequestPath(robot, path) ==
    /\ tm' = request_path(tm, robot, path).tm
    /\ tmCall' = [op |-> "request", robot |-> robot, path |-> path,
                  ok |-> request_path(tm, robot, path).ok,
                  undoes |-> FALSE, before |-> tm]
    /\ UNCHANGED << FleetVars, nav >>

ReleasePath(robot, path) ==
    /\ tm' = release_path(tm, robot, path)
    /\ tmCall' = [op |-> "release", robot |-> robot, path |-> path,
                  ok |-> TRUE, undoes |-> Undoing(robot, path),
                  before |-> IF Undoing(robot, path) THEN tmCall.before
                             ELSE NoTraffic]
    /\ UNCHANGED << FleetVars, nav >>

Request ==
    \E robot \in TrafficRobots, path \in PathInputs : RequestPath(robot, path)

Release ==
    \E robot \in TrafficRobots, path \in PathInputs : ReleasePath(robot, path)

NextTraffic == Request \/ Release

SpecTraffic == InitTraffic /\ [][NextTraffic]_vars

\* A NavGraph after load_from_json has read its level table from a file that
\* holds at most MaxLevels levels, named 1, 2, ...; load_level is called with
\* these names and with two names the table lacks.
LevelTables ==
    UNION {[1 .. n -> {FileOf(g) : g \in {LevelPool[k] : k \in DOMAIN LevelPool}}] :
              n \in 1 .. MaxLevels}

InitLoad ==
    /\ level = 1
    /\ gui = FALSE
    /\ robots = << >>
    /\ robot_id_counter = 1
    /\ occupied_vertices = << >>
    /\ occupied_lanes = << >>
    /\ lastOp = "init"
    /\ args = << >>
    /\ ok = TRUE
    /\ emitted = << >>
    /\ pre = << >>
    /\ mid = << >>
    /\ task = << >>
    /\ assigns = 0
    /\ issued = 0
    /\ swap = [stage |-> 0, contended |-> FALSE]
    /\ tm = NoTraffic
    /\ tmCall = NoCall
    /\ \E t \in LevelTables : nav = [NoNav EXCEPT !.levels = t]

LevelNames == 0 .. (MaxLevels + 1)

LoadLevel(level_name) ==
    /\ nav' = load_level(nav, level_name).nav
    /\ lastOp' = "load_level"
    /\ args' = << level_name >>
    /\ ok' = ~load_level(nav, level_name).raised
    /\ UNCHANGED << level, gui, robots, robot_id_counter, occupied_vertices,
                    occupied_lanes, emitted, pre, mid, task, assigns, issued,
                    swap, tm, tmCall >>

NextLoad == \E level_name \in LevelNames : LoadLevel(level_name)

SpecLoad == InitLoad /\ [][NextLoad]_vars

\* ================================================================ claims
Ids == 1 .. Len(robots)
AfterTick == lastOp = "tick"

\* C1: after every tick no two distinct robots are both MOVING on lanes with
\* the same ends, whatever their directions of travel.
C1_ConflictFreedom ==
    AfterTick =>
        \A i, j \in Ids :
            (i # j /\ OnLane(robots[i]) /\ OnLane(robots[j]))
                => ~SameLane(robots[i].current_lane, robots[j].current_lane)

\* C1's case: the tick's arbitration met two robots travelling one lane in
\* opposite directions.
C1_Witness ==
    /\ AfterTick
    /\ \E i, j \in Ids :
           /\ Contend(mid, i, j)
           /\ mid[i].current_lane # mid[j].current_lane

\* C2 (as claimed): after every tick every vertex that is no charger is the
\* current_vertex_idx of at most one robot.
C2_SingleOccupancy ==
    AfterTick =>
        \A i, j \in Ids :
            (/\ i # j
             /\ robots[i].current_vertex_idx # None
             /\ robots[i].current_vertex_idx = robots[j].current_vertex_idx)
                => Vertex(Graph, robots[i].current_vertex_idx).is_charger

\* The robots that claimed the lane of robot i when the arbitration began.
Contenders(i) == {j \in Ids : j = i \/ Contend(mid, i, j)}

\* The key of robot i's lane when the arbitration began.
KeyOf(i) == << Min(mid[i].current_lane[1], mid[i].current_lane[2]),
               Max(mid[i].current_lane[1], mid[i].current_lane[2]) >>

\* C3 (as claimed): of any two robots that are both MOVING on one lane key when
\* a tick's arbitration runs, at the end of the tick the one with the lower id
\* is still MOVING and is the key's holder in occupied_lanes, and the one with
\* the higher id is WAITING.
C3_EveryPair ==
    AfterTick =>
        \A i, j \in Ids :
            (Contend(mid, i, j) /\ mid[i].id < mid[j].id) =>
                /\ robots[j].status = "WAITING"
                /\ robots[i].status = "MOVING"
                /\ KeyOf(i) \in DOMAIN occupied_lanes
                /\ occupied_lanes[KeyOf(i)] = robots[i].id

\* C3 (amended): of the robots that are MOVING on one lane key when a tick's
\* arbitration runs, the one with the lowest id is still MOVING at the end of
\* the tick and is the key's holder in occupied_lanes, and every other one is
\* WAITING.
C3_LowerIdWins ==
    AfterTick =>
        \A i, j \in Ids :
            (Contend(mid, i, j) /\ mid[i].id < mid[j].id) =>
                /\ robots[j].status = "WAITING"
                /\ (\A k \in Contenders(i) : mid[i].id <= mid[k].id) =>
                       /\ robots[i].status = "MOVING"
                       /\ KeyOf(i) \in DOMAIN occupied_lanes
                       /\ occupied_lanes[KeyOf(i)] = robots[i].id

\* C3's case: three robots claimed one lane in the tick.
C3_Witness ==
    /\ AfterTick
    /\ \E i, j, k \in Ids :
           /\ Contend(mid, i, j) /\ Contend(mid, j, k) /\ Contend(mid, i, k)
           /\ robots[i].status = "MOVING"

\* Robot i is WAITING after a tick and no other robot is MOVING on its lane.
WaitsOnFreeLane(i) ==
    /\ AfterTick
    /\ i \in Ids
    /\ robots[i].status = "WAITING"
    /\ \A j \in Ids \ {i} :
           OnLane(robots[j]) =>
               ~SameLane(robots[j].current_lane, robots[i].current_lane)

\* C4 (as claimed): a robot that is WAITING while no other MOVING robot holds
\* its lane is MOVING again at some later time, the ticks continuing.
C4_WaitingResumes ==
    \A i \in 1 .. MaxRobots :
        [](WaitsOnFreeLane(i) => <>(i \in Ids /\ robots[i].status = "MOVING"))

\* A single robot is MOVING after a tick with its battery below 20 and a
\* charger at least one lane away from its current vertex.
SeeksCharger ==
    /\ AfterTick
    /\ Len(robots) = 1
    /\ robots[1].status = "MOVING"
    /\ robots[1].battery < LowBattery
    /\ \E c \in Chargers(Graph) :
           Len(find_shortest_path(Graph, robots[1].current_vertex_idx, c)) >= 2

\* C5 (as claimed): a single robot that is MOVING with its battery below 20 and
\* a charger reachable over at least one lane is CHARGING at some later time,
\* the ticks continuing.
C5_ChargerSeeking ==
    [](SeeksCharger => <>(Len(robots) = 1 /\ robots[1].status = "CHARGING"))

\* C6: the battery of every robot is always between 0 and 100.
C6_BatteryBounds ==
    \A i \in Ids : robots[i].battery >= 0 /\ robots[i].battery <= FullBattery

\* C6's case: a tick drained a battery that was empty already.
C6_Witness ==
    /\ AfterTick
    /\ \E i \in Ids :
           /\ pre[i].status = "MOVING" /\ pre[i].battery = 0
           /\ robots[i].status = "MOVING" /\ robots[i].battery = 0

Resting == {"IDLE", "WAITING", "TASK_COMPLETE"}

\* C7: across a tick a battery decreases only if the robot was MOVING when
\* the tick began, increases only if it was CHARGING then, and is unchanged
\* for a robot that was IDLE, WAITING or TASK_COMPLETE; spawn and assignTask
\* leave every battery as it was.
C7_BatteryFrame ==
    /\ AfterTick =>
           \A i \in Ids :
               /\ robots[i].battery < pre[i].battery => pre[i].status = "MOVING"
               /\ robots[i].battery > pre[i].battery => pre[i].status = "CHARGING"
               /\ pre[i].status \in Resting => robots[i].battery = pre[i].battery
    /\ lastOp \in {"spawn", "assign"} =>
           \A i \in 1 .. Len(pre) : robots[i].battery = pre[i].battery

\* C7's case: in one tick a robot drained its battery, another one that was
\* WAITING kept its own.
C7_Witness ==
    /\ AfterTick
    /\ \E i, j \in Ids :
           /\ pre[i].status = "MOVING" /\ robots[i].battery < pre[i].battery
           /\ pre[j].status = "WAITING" /\ robots[j].battery = pre[j].battery

\* What a tick makes of a robot that is CHARGING with battery b.
ChargedTo(b) == Min(FullBattery, b + ChargeStep)

\* C8: a tick gives a CHARGING robot exactly 1 unit of battery, capped at
\* 100, and leaves it CHARGING if the battery is then below 95 and IDLE
\* otherwise; no step takes a robot out of CHARGING with a battery below 95;
\* every CHARGING robot is IDLE at some later time.
C8_ChargingCycle ==
    /\ [][lastOp' = "tick" =>
            \A i \in Ids :
                robots[i].status = "CHARGING" =>
                    /\ robots'[i].battery = ChargedTo(robots[i].battery)
                    /\ robots'[i].status =
                           IF ChargedTo(robots[i].battery) >= ChargedAt
                           THEN "IDLE" ELSE "CHARGING"]_vars
    /\ [][\A i \in Ids :
              (robots[i].status = "CHARGING" /\ robots'[i].status # "CHARGING")
                  => robots'[i].battery >= ChargedAt]_vars
    /\ \A i \in 1 .. MaxRobots :
           (i \in Ids /\ robots[i].status = "CHARGING")
               ~> (i \in Ids /\ robots[i].status = "IDLE")

\* C8's case: the tick that ends a charge.
C8_Witness ==
    /\ AfterTick
    /\ \E i \in Ids :
           /\ pre[i].status = "CHARGING" /\ pre[i].battery < ChargedAt
           /\ robots[i].status = "IDLE"

\* The route of a task and its number of lanes.
Route(t) == find_shortest_path(Graph, t.start, t.dest)
Hops(t) == Len(Route(t)) - 1

\* A single robot after a tick, on a task it was given with a full battery,
\* at least one lane long and with no charger on its route.
OnPlainTask ==
    /\ AfterTick
    /\ Len(robots) = 1
    /\ task[1].dest # None
    /\ task[1].full
    /\ Hops(task[1]) >= 1
    /\ \A n \in 1 .. Len(Route(task[1])) :
           ~Vertex(Graph, Route(task[1])[n]).is_charger

\* C9: a single robot given, with a full battery, a task of k >= 1 lanes with
\* no charger on the route is MOVING after each of the first k * N - 1 ticks
\* (N = 1 / speed) and after k * N ticks is at the destination, TASK_COMPLETE,
\* with destination_vertex_idx null.
C9_CompletionTiming ==
    OnPlainTask =>
        /\ task[1].age < Hops(task[1]) * LaneSteps => robots[1].status = "MOVING"
        /\ task[1].age = Hops(task[1]) * LaneSteps =>
               /\ robots[1].current_vertex_idx = task[1].dest
               /\ robots[1].status = "TASK_COMPLETE"
               /\ robots[1].destination_vertex_idx = None

\* C9's case: the line 0 - 1 - 2, k = 2, after 2 * N ticks.
C9_Witness ==
    /\ OnPlainTask
    /\ Graph = LineLevel
    /\ task[1].start = 0 /\ task[1].dest = 2
    /\ task[1].age = 2 * LaneSteps
    /\ robots[1].status = "TASK_COMPLETE"

\* The calls so far are those of the swap scenario, on the line level.
SwapDone == Graph = LineLevel /\ swap.stage = Len(SwapScript)

\* C10 (as claimed): the ticks that follow the swap scenario's calls reach one
\* in which both robots claim one lane, robot 1 stays MOVING and robot 2
\* goes WAITING; so once these ticks leave no robot MOVING, that tick has
\* been.
C10_SwapContention ==
    (/\ SwapDone
     /\ AfterTick
     /\ \A i \in Ids : robots[i].status # "MOVING") => swap.contended

\* C10 (amended): in the swap scenario both assignTask calls fail, the
\* destination of each being the vertex the other robot is on; both robots
\* stay IDLE at vertices 0 and 2 with no task, and no tick finds them on one
\* lane.
C10_SwapRejected ==
    Graph = LineLevel =>
        /\ (swap.stage >= Len(SwapScript) - 1 /\ lastOp = "assign") => ~ok
        /\ swap.stage >= Len(SwapScript) - 1 =>
               /\ Len(robots) = 2
               /\ ~swap.contended
               /\ \A i \in Ids :
                      /\ robots[i].status = "IDLE"
                      /\ robots[i].current_vertex_idx = SwapScript[i][2]
                      /\ robots[i].destination_vertex_idx = None
                      /\ robots[i].path = << >>
                      /\ robots[i].current_lane = NoLane
                      /\ robots[i].battery = FullBattery

\* C10's case: a tick after the four calls of the scenario.
C10_Witness == SwapDone /\ AfterTick

\* The last call was FleetManager.assign_task and it went through its own
\* tests to Robot.assign_task, which returned what ok holds.
Delegated ==
    /\ lastOp = "assign"
    /\ FindRobot(pre, args[1]) # 0
    /\ pre[FindRobot(pre, args[1])].current_vertex_idx # None
    /\ args[2] \in VertexIdx(Graph)
    /\ \/ Vertex(Graph, args[2]).is_charger
       \/ ~is_vertex_occupied(occupied_vertices, Graph, args[2])

\* C11 (as claimed): when Robot.assign_task returns false, every field of the
\* robot is as it was before the call.
C11_FailedAssignKeepsRobot ==
    (Delegated /\ ~ok) => robots = pre

\* The occupancy table records a robot at vertex v.
Recorded(occ, v) == v \in DOMAIN occ /\ Len(occ[v]) > 0

\* The fleet and its tables are after the step what they were before it.
FleetUntouched ==
    /\ robots' = robots
    /\ robot_id_counter' = robot_id_counter
    /\ occupied_vertices' = occupied_vertices
    /\ occupied_lanes' = occupied_lanes

\* assign_task(id, d) must refuse: no robot has the id, the robot has no
\* current vertex, d is no vertex index, or d is no charger and the table
\* records a robot there.
MustRefuse(id, d) ==
    \/ \A i \in Ids : robots[i].id # id
    \/ \E i \in Ids : robots[i].id = id /\ robots[i].current_vertex_idx = None
    \/ d \notin VertexIdx(Graph)
    \/ ~Vertex(Graph, d).is_charger /\ Recorded(occupied_vertices, d)

SpawnRefused(v) ==
    \/ v \notin VertexIdx(Graph)
    \/ /\ ~Vertex(Graph, v).is_charger
       /\ \E i \in Ids : robots[i].current_vertex_idx = v

\* C13: spawn(v) fails when v is out of range or a non-charger vertex that
\* hosts a robot, and then the robots, the id counter and the occupancy of
\* every vertex are as before; otherwise it succeeds and adds exactly one
\* robot, with the next id, IDLE, at v, entered among the occupants of v.
C13_SpawnContract ==
    [][lastOp' = "spawn" =>
          LET v == args'[1]
              n == Len(robots) + 1
          IN  IF SpawnRefused(v)
              THEN ~ok' /\ FleetUntouched
              ELSE /\ ok'
                   /\ Len(robots') = n
                   /\ SubSeq(robots', 1, Len(robots)) = robots
                   /\ robots'[n].id = robot_id_counter
                   /\ \A i \in Ids : robots[i].id < robots'[n].id
                   /\ robot_id_counter' = robot_id_counter + 1
                   /\ robots'[n].status = "IDLE"
                   /\ robots'[n].current_vertex_idx = v
                   /\ v \in DOMAIN occupied_vertices'
                   /\ \E k \in 1 .. Len(occupied_vertices'[v]) :
                          occupied_vertices'[v][k] = robots'[n].id
                   /\ \A u \in DOMAIN occupied_vertices :
                          u # v => occupied_vertices'[u] = occupied_vertices[u]]_vars

\* C13's case: a spawn refused on an occupied vertex after one that
\* succeeded.
C13_Witness ==
    /\ lastOp = "spawn"
    /\ ~ok
    /\ args[1] \in VertexIdx(Graph)
    /\ \E i \in Ids : robots[i].current_vertex_idx = args[1]

\* C14 (as claimed): every successful spawn yields an id greater than every
\* id handed out before it, level switches and resets included.
C14_IdsNeverReused ==
    [][(lastOp' = "spawn" /\ ok') => robots'[Len(robots')].id > issued]_vars

\* The vertices of g at most k lanes away from a.
RECURSIVE Within(_, _, _)
Within(g, a, k) ==
    IF k = 0 THEN {a}
    ELSE LET w == Within(g, a, k - 1)
         IN  w \cup {v \in VertexIdx(g) : \E u \in w : HasLane(g, u, v)}

Connected(g, a, b) == b \in Within(g, a, NumVertices(g))

\* The breadth-first distance of two connected vertices.
Hopcount(g, a, b) ==
    CHOOSE k \in 0 .. NumVertices(g) :
        /\ b \in Within(g, a, k)
        /\ \A j \in 0 .. (k - 1) : b \notin Within(g, a, j)

\* find_shortest_path has answered a call on the graph under test.
Answered == nav.start_idx # None

\* C15: for connected start # end the path begins with start, ends with end,
\* joins consecutive entries by lanes, repeats no vertex, and has as many
\* hops as the breadth-first distance of start and end.
C15_ShortestPathValid ==
    (/\ Answered
     /\ nav.start_idx # nav.end_idx
     /\ Connected(nav.graph, nav.start_idx, nav.end_idx)) =>
        LET path == nav.path
        IN  /\ Len(path) >= 2
            /\ path[1] = nav.start_idx
            /\ path[Len(path)] = nav.end_idx
            /\ \A k \in 1 .. (Len(path) - 1) :
                   HasLane(nav.graph, path[k], path[k + 1])
            /\ \A j, k \in 1 .. Len(path) : j # k => path[j] # path[k]
            /\ Len(path) - 1 = Hopcount(nav.graph, nav.start_idx, nav.end_idx)

\* C15's case: the one-hop path found between two vertices that a route of
\* two hops joins as well.
C15_Witness ==
    /\ Answered
    /\ Len(nav.path) = 2
    /\ \E u \in VertexIdx(nav.graph) \ {nav.start_idx, nav.end_idx} :
           /\ HasLane(nav.graph, nav.start_idx, u)
           /\ HasLane(nav.graph, u, nav.end_idx)

\* C16: find_shortest_path(a, a) is [a], and for a # b that no lanes connect
\* the result is the empty list.
C16_PathEdgeCases ==
    Answered =>
        /\ nav.start_idx = nav.end_idx => nav.path = << nav.start_idx >>
        /\ ~Connected(nav.graph, nav.start_idx, nav.end_idx) => nav.path = << >>

\* C16's case: a call for two vertices of a graph with lanes that no lanes
\* connect.
C16_Witness ==
    /\ Answered
    /\ nav.start_idx # nav.end_idx
    /\ nav.path = << >>
    /\ \E k \in 1 .. Len(nav.graph.lanes) :
           nav.graph.lanes[k].start_idx = nav.start_idx

\* The step of update_position up to the battery consumption: what a MOVING
\* robot on a lane becomes when no reroute is attempted.
Undisturbed(r) ==
    LET p == r.progress + 1
    IN  IF p >= LaneSteps THEN Arrive(r, Graph) ELSE Interpolate(r, Graph, p)

\* The last tick drained robot i below the threshold while it was MOVING and
\* its reroute failed: no charger, or no path to the nearest one.
RerouteFailed(i) ==
    /\ AfterTick
    /\ i \in 1 .. Len(pre)
    /\ pre[i].status = "MOVING"
    /\ pre[i].current_lane # NoLane
    /\ Undisturbed(pre[i]).status = "MOVING"
    /\ Drain(Undisturbed(pre[i]).battery) < LowBattery
    /\ \/ Chargers(Graph) = {}
       \/ ShortestPath(Graph, Undisturbed(pre[i]).current_vertex_idx,
                       NearestCharger(Undisturbed(pre[i]), Graph)) = << >>

\* C17 (as claimed): after a failed low-battery reroute the robot's
\* destination_vertex_idx, path, current_lane and progress are what they would
\* be without the attempt.
C17_FailedRerouteKeepsCourse ==
    \A i \in Ids :
        RerouteFailed(i) =>
            /\ robots[i].destination_vertex_idx
                  = Undisturbed(pre[i]).destination_vertex_idx
            /\ robots[i].path = Undisturbed(pre[i]).path
            /\ robots[i].current_lane = Undisturbed(pre[i]).current_lane
            /\ robots[i].progress = Undisturbed(pre[i]).progress

\* The lane keys along a path, and its non-terminal intermediate vertices.
KeysOf(path) == {lane_key(path[i], path[i + 1]) : i \in 1 .. (Len(path) - 1)}
StopsOf(path) == {path[i + 1] : i \in 1 .. (Len(path) - 2)}

Requested == tmCall.op = "request"

\* C18: whenever request_path returns false, the reservations table and every
\* intersection queue are exactly as they were before the call.
C18_RejectsAtomically ==
    (Requested /\ ~tmCall.ok) => tm = tmCall.before

\* C18's case: a request refused at its second step, whose first step passed
\* the tests and had its lane free.
C18_Witness ==
    /\ Requested
    /\ ~tmCall.ok
    /\ Len(tmCall.path) >= 3
    /\ ~StepBlocked(tmCall.before, tmCall.robot, tmCall.path, 1)
    /\ StepBlocked(tmCall.before, tmCall.robot, tmCall.path, 2)
    /\ lane_key(tmCall.path[1], tmCall.path[2])
          \notin DOMAIN tmCall.before.reservations

\* C19: request_path returns true only if no lane key along the path was
\* reserved by another robot before the call; after a successful call every
\* lane key along the path is reserved by the caller and the caller is queued
\* at every non-terminal intermediate vertex; and every reservation another
\* robot held before the call is still that robot's after it.
C19_ReservationExclusivity ==
    (Requested /\ tmCall.ok) =>
        /\ \A k \in KeysOf(tmCall.path) \cap DOMAIN tmCall.before.reservations :
               tmCall.before.reservations[k] = tmCall.robot
        /\ \A k \in KeysOf(tmCall.path) :
               k \in DOMAIN tm.reservations /\ tm.reservations[k] = tmCall.robot
        /\ \A v \in StopsOf(tmCall.path) :
               /\ v \in DOMAIN tm.intersection_queues
               /\ InQueue(tm.intersection_queues[v], tmCall.robot)
        /\ \A k \in DOMAIN tmCall.before.reservations :
               tmCall.before.reservations[k] # tmCall.robot =>
                   /\ k \in DOMAIN tm.reservations
                   /\ tm.reservations[k] = tmCall.before.reservations[k]

\* C19's case: a path with an intermediate vertex granted while another robot
\* holds a lane.
C19_Witness ==
    /\ Requested
    /\ tmCall.ok
    /\ Len(tmCall.path) >= 3
    /\ \E k \in DOMAIN tm.reservations : tm.reservations[k] # tmCall.robot

\* The entries of a queue that are not the robot's, in their order.
Without(q, robot) == SelectSeq(q, LAMBDA x : x # robot)

\* The queue at v, an absent key counting as an empty queue.
QueueAt(t, v) ==
    IF v \in DOMAIN t.intersection_queues THEN t.intersection_queues[v]
    ELSE << >>

\* The same reserved lane keys with the same owners, and the same contents of
\* every intersection queue.
SameTraffic(a, b) ==
    /\ a.reservations = b.reservations
    /\ \A v \in DOMAIN a.intersection_queues \cup DOMAIN b.intersection_queues :
           QueueAt(a, v) = QueueAt(b, v)

\* A release_path step removes only the caller's reservations and the
\* caller's queue entries: what any other robot holds is untouched, and
\* nothing is added.
OthersUntouched ==
    /\ DOMAIN tm'.reservations \subseteq DOMAIN tm.reservations
    /\ \A k \in DOMAIN tm'.reservations : tm'.reservations[k] = tm.reservations[k]
    /\ \A k \in DOMAIN tm.reservations :
           tm.reservations[k] # tmCall'.robot => k \in DOMAIN tm'.reservations
    /\ DOMAIN tm'.intersection_queues = DOMAIN tm.intersection_queues
    /\ \A v \in DOMAIN tm.intersection_queues :
           /\ Without(tm'.intersection_queues[v], tmCall'.robot)
                 = Without(tm.intersection_queues[v], tmCall'.robot)
           /\ Len(tm'.intersection_queues[v]) <= Len(tm.intersection_queues[v])

\* The robot held no lane key of the path before it requested the path.
Fresh(t, robot, path) == KeysOf(path) \cap DOMAIN t.reservations = {}

\* C20 (as claimed): release_path removes only the caller's reservations and
\* queue entries, and a release that follows the successful request of the
\* same path by the same robot restores the reservations and the contents of
\* the queues to what they were before the request.
C20_ReleaseUndoes ==
    [][tmCall'.op = "release" =>
          /\ OthersUntouched
          /\ tmCall'.undoes => SameTraffic(tm', tmCall'.before)]_vars

\* C20 (amended): release_path removes only the caller's reservations and
\* queue entries, and a release that follows the successful request of the
\* same path by the same robot restores the reservations and the contents of
\* the queues to what they were before the request provided the robot held
\* no lane key of the path before the request.
C20_ReleaseUndoesFresh ==
    [][tmCall'.op = "release" =>
          /\ OthersUntouched
          /\ (tmCall'.undoes
                /\ Fresh(tmCall'.before, tmCall'.robot, tmCall'.path)) =>
                 SameTraffic(tm', tmCall'.before)]_vars

\* C20's case: a path with an intermediate vertex requested on fresh lanes
\* and released at once, while another robot holds a lane of it and keeps it.
C20_Witness ==
    /\ tmCall.op = "release"
    /\ tmCall.undoes
    /\ Len(tmCall.path) >= 3
    /\ Fresh(tmCall.before, tmCall.robot, tmCall.path)
    /\ tmCall.before.reservations # << >>
    /\ SameTraffic(tm, tmCall.before)

Loaded == lastOp = "load_level"

\* The level the table holds under a name, as load_level should leave it.
LevelNamed(n, level_name) ==
    CHOOSE g \in {LevelPool[k] : k \in DOMAIN LevelPool} :
        FileOf(g) = n.levels[level_name]

\* C21: load_level with a name the level table lacks raises and leaves the
\* vertex and lane sequences as they were; with a name the table holds it
\* leaves exactly that level's vertices and lanes, nothing of the level
\* loaded before.
C21_LoadLevel ==
    [][lastOp' = "load_level" =>
          IF args'[1] \in DOMAIN nav.levels
          THEN ok' /\ nav'.graph = LevelNamed(nav, args'[1])
          ELSE ~ok' /\ nav'.graph = nav.graph]_vars

\* C21's case: a load that failed on an unknown name with a level loaded.
C21_Witness ==
    /\ Loaded
    /\ ~ok
    /\ args[1] \notin DOMAIN nav.levels
    /\ nav.graph.vertices # << >>
    /\ nav.graph.lanes # << >>

\* C22 (as claimed): after a successful load every lane's start and end are
\* vertex indices of the level.
C22_CorruptGraphRejected ==
    (Loaded /\ ok) =>
        \A k \in DOMAIN nav.graph.lanes :
            /\ nav.graph.lanes[k].start_idx \in VertexIdx(nav.graph)
            /\ nav.graph.lanes[k].end_idx \in VertexIdx(nav.graph)

\* The last tick was the GUI coordinator's and robot i, WAITING when it began,
\* gave up waiting in it (update_waiting found the timeout exceeded).
GaveUpWaiting(i) ==
    /\ AfterTick
    /\ gui
    /\ pre[i].status = "WAITING"
    /\ pre[i].waiting_since # None
    /\ robots[i].status = "IDLE"

\* C23 (as claimed): a robot that has been WAITING for longer than the timeout
\* is IDLE after the tick, its path is empty and its destination_vertex_idx
\* is null.
C23_WaitTimeoutAbandonsPath ==
    \A i \in Ids :
        GaveUpWaiting(i) =>
            /\ robots[i].path = << >>
            /\ robots[i].destination_vertex_idx = None

\* Robot i stood at an index that the level no longer has, or at none, when
\* the last tick began.
OffLevel(i) ==
    \/ pre[i].current_vertex_idx = None
    \/ pre[i].current_vertex_idx >= NumVertices(Graph)

\* C24 (as claimed): in the core coordinator, a tick on a level that has
\* shrunk under the fleet leaves every robot whose current_vertex_idx is out
\* of range IDLE with no current vertex, and that tick and every later one
\* complete without raising and leave that robot IDLE and unpositioned.
C24_ShrinkSafety ==
    (AfterTick /\ ~gui) =>
        /\ ok
        /\ \A i \in Ids :
               OffLevel(i) => /\ robots[i].status = "IDLE"
                              /\ robots[i].current_vertex_idx = None

\* C25 (as claimed): after every tick, every robot whose status is
\* TASK_COMPLETE has no destination_vertex_idx.
C25_CompleteClearsDestination ==
    AfterTick =>
        \A i \in Ids :
            robots[i].status = "TASK_COMPLETE" =>
                robots[i].destination_vertex_idx = None

\* C26: after every step each robot's progress lies in [0, 1), and a step
\* that changes a robot's current_lane leaves its progress at 0.
C26_ProgressInvariant ==
    [][\A i \in 1 .. Len(robots') :
          /\ robots'[i].progress \in 0 .. (LaneSteps - 1)
          /\ (i <= Len(robots)
                /\ robots'[i].current_lane # robots[i].current_lane) =>
                 robots'[i].progress = 0]_vars

\* C26's case: a robot part of the way along a lane was given a task that
\* starts on another lane.
C26_Witness ==
    /\ lastOp = "assign"
    /\ ok
    /\ \E i \in Ids :
           /\ pre[i].current_lane # NoLane
           /\ pre[i].progress > 0
           /\ robots[i].current_lane # pre[i].current_lane
           /\ robots[i].progress = 0

\* C27 (as claimed): after every tick, every robot that is MOVING on a lane
\* (s, e) has current_vertex_idx = s and a path that is not empty and begins
\* with e.
C27_PathLaneConsistency ==
    AfterTick =>
        \A i \in Ids :
            (robots[i].status = "MOVING" /\ robots[i].current_lane # NoLane) =>
                /\ robots[i].current_vertex_idx = robots[i].current_lane[1]
                /\ robots[i].path # << >>
                /\ Head(robots[i].path) = robots[i].current_lane[2]

\* C28: a tick leaves the progress, x, y, current_vertex_idx, current_lane,
\* path and battery of every robot that was WAITING when it began as they
\* were.
C28_WaitingNotMoved ==
    AfterTick =>
        \A i \in Ids :
            pre[i].status = "WAITING" =>
                /\ robots[i].progress = pre[i].progress
                /\ robots[i].x = pre[i].x
                /\ robots[i].y = pre[i].y
                /\ robots[i].current_vertex_idx = pre[i].current_vertex_idx
                /\ robots[i].current_lane = pre[i].current_lane
                /\ robots[i].path = pre[i].path
                /\ robots[i].battery = pre[i].battery

\* C28's case: the core coordinator called update_position on a robot that
\* was WAITING part of the way along its lane, with vertices still to visit.
C28_Witness ==
    /\ AfterTick
    /\ ~gui
    /\ \E i \in Ids :
           /\ pre[i].status = "WAITING"
           /\ pre[i].current_lane # NoLane
           /\ pre[i].progress > 0
           /\ pre[i].path # << >>
           /\ robots[i].status = "WAITING"

\* C29: a tick of a coordinator without robots leaves no robot recorded at
\* any vertex, leaves the lane table empty, emits nothing and does not raise;
\* a tick that follows such a tick changes nothing at all.
C29_EmptyFleetTick ==
    [][(lastOp' = "tick" /\ robots = << >>) =>
          /\ ok'
          /\ robots' = << >>
          /\ \A v \in DOMAIN occupied_vertices' : occupied_vertices'[v] = << >>
          /\ occupied_lanes' = << >>
          /\ emitted' = << >>
          /\ robot_id_counter' = robot_id_counter
          /\ lastOp = "tick" => occupied_vertices' = occupied_vertices]_vars

\* C29's case: a tick of an empty coordinator whose tables had been cleared
\* by a level change; the vertex table now has the level's keys.
C29_Witness ==
    /\ AfterTick
    /\ robots = << >>
    /\ pre = << >>
    /\ issued > 0
    /\ DOMAIN occupied_vertices = VertexIdx(Graph)
    /\ \A v \in VertexIdx(Graph) : occupied_vertices[v] = << >>
    /\ occupied_lanes = << >>
    /\ emitted = << >>

\* C30: when three or more robots are MOVING on one lane key as a tick's
\* arbitration runs, at the end of the tick the one with the lowest id is
\* MOVING and every other one is WAITING.
C30_MultiWayContention ==
    AfterTick =>
        \A i \in Ids :
            (OnLane(mid[i]) /\ Cardinality(Contenders(i)) >= 3) =>
                \A j \in Contenders(i) :
                    IF \A k \in Contenders(i) : mid[j].id <= mid[k].id
                    THEN robots[j].status = "MOVING"
                    ELSE robots[j].status = "WAITING"

\* C30's case: the GUI coordinator settled a lane claimed by three robots,
\* one of which moves on while two wait.
C30_Witness ==
    /\ AfterTick
    /\ gui
    /\ \E i \in Ids :
           /\ OnLane(mid[i])
           /\ Cardinality(Contenders(i)) = 3
           /\ Cardinality({j \in Contenders(i) : robots[j].status = "WAITING"}) = 2
           /\ Cardinality({j \in Contenders(i) : robots[j].status = "MOVING"}) = 1

\* The step is a request_path call that repeats, with the same robot and the
\* same path of at least two vertices, the successful request before it.
Rerequest ==
    /\ Requested
    /\ tmCall.ok
    /\ tmCall'.op = "request"
    /\ tmCall'.robot = tmCall.robot
    /\ tmCall'.path = tmCall.path
    /\ Len(tmCall.path) >= 2

\* C31 (as claimed): a request_path that repeats the successful request just
\* before it, same robot and same path of any length >= 2, also returns true
\* and leaves the reservations and every intersection queue as they were.
C31_RerequestIdempotent ==
    [][Rerequest => (tmCall'.ok /\ SameTraffic(tm', tm))]_vars

\* The last task FleetManager.assign_task gave robot i was to the vertex that
\* was the robot's current_vertex_idx at the call.
OnOwnVertexTask(i) == task[i].dest # None /\ task[i].start = task[i].dest

\* Robot i holds a lane in the table.
ClaimsLane(occL, id) == \E k \in DOMAIN occL : occL[k] = id

\* C32 (as claimed): after assign_task has succeeded with the robot's own
\* current_vertex_idx as destination, no tick changes the robot's x, y or
\* current_vertex_idx or enters it as holder of a lane, and the first tick
\* after the call leaves it TASK_COMPLETE.
C32_OwnVertexTaskStaysPut ==
    [][lastOp' = "tick" =>
          \A i \in Ids :
              OnOwnVertexTask(i) =>
                  /\ robots'[i].x = robots[i].x
                  /\ robots'[i].y = robots[i].y
                  /\ robots'[i].current_vertex_idx = robots[i].current_vertex_idx
                  /\ ~ClaimsLane(occupied_lanes', robots[i].id)
                  /\ (lastOp = "assign" /\ ok /\ args[1] = robots[i].id) =>
                         robots'[i].status = "TASK_COMPLETE"]_vars

\* C33: on a fixed level, a tick changes a robot's current_vertex_idx only
\* from one end of a lane of the graph to the other, and assignTask changes
\* no robot's current_vertex_idx.
C33_MovesAlongLanes ==
    [][/\ lastOp' = "tick" =>
              \A i \in Ids :
                  robots'[i].current_vertex_idx # robots[i].current_vertex_idx =>
                      HasLane(Graph, robots[i].current_vertex_idx,
                              robots'[i].current_vertex_idx)
       /\ lastOp' = "assign" =>
              \A i \in Ids :
                  robots'[i].current_vertex_idx = robots[i].current_vertex_idx]_vars

\* C33's case: a tick took a robot to the end of a lane that its path did not
\* lead over (the lane was left from an earlier task).
C33_Witness ==
    /\ AfterTick
    /\ \E i \in Ids :
           /\ pre[i].status = "MOVING"
           /\ pre[i].current_lane # NoLane
           /\ pre[i].path # << >>
           /\ Head(pre[i].path) # pre[i].current_lane[2]
           /\ robots[i].current_vertex_idx # pre[i].current_vertex_idx

\* Robot r, as a tick finds it, reaches in that tick the end of its lane, a
\* charger, with its battery below 50.
ArrivesLowAtCharger(r) ==
    /\ r.status = "MOVING"
    /\ r.current_lane # NoLane
    /\ r.progress + 1 >= LaneSteps
    /\ Vertex(Graph, r.current_lane[2]).is_charger
    /\ r.battery < ChargeBelow

\* C34: on a fixed level, a robot becomes CHARGING only in a tick in which it
\* arrives at a charger vertex with its battery below 50, and after every
\* step the current_vertex_idx of every CHARGING robot is a charger vertex.
C34_ChargingOnlyAtChargers ==
    [][\A i \in 1 .. Len(robots') :
          robots'[i].status = "CHARGING" =>
              /\ robots'[i].current_vertex_idx \in Chargers(Graph)
              /\ (i > Len(robots) \/ robots[i].status # "CHARGING") =>
                     /\ lastOp' = "tick"
                     /\ i <= Len(robots)
                     /\ ArrivesLowAtCharger(robots[i])
                     /\ robots'[i].current_vertex_idx = robots[i].current_lane[2]]_vars

\* C34's case: a robot arrives at the charger with a battery between 20 and
\* 50 and starts to charge.
C34_Witness ==
    /\ AfterTick
    /\ \E i \in Ids :
           /\ pre[i].status = "MOVING"
           /\ pre[i].battery < ChargeBelow
           /\ pre[i].battery >= LowBattery
           /\ robots[i].status = "CHARGING"
           /\ robots[i].current_vertex_idx \in Chargers(Graph)

\* The last tick's arbitration set robot i, MOVING when it began, to WAITING.
SetWaiting(i) == mid[i].status = "MOVING" /\ robots[i].status = "WAITING"

\* C35: the robots are listed by strictly increasing id; hence in the GUI
\* coordinator's arbitration every robot set to WAITING was the one under
\* examination: the holder recorded for its lane key has a lower id and came
\* before it in the list, and no holder is set to WAITING (the branch that
\* demotes the holder is not taken).
C35_HolderHasLowerId ==
    /\ \A i, j \in Ids : i < j => robots[i].id < robots[j].id
    /\ (AfterTick /\ gui) =>
           \A i \in Ids :
               /\ SetWaiting(i) =>
                      /\ KeyOf(i) \in DOMAIN occupied_lanes
                      /\ occupied_lanes[KeyOf(i)] < mid[i].id
                      /\ \E j \in 1 .. (i - 1) :
                             /\ Contend(mid, i, j)
                             /\ mid[j].id = occupied_lanes[KeyOf(i)]
               /\ (OnLane(mid[i]) /\ occupied_lanes[KeyOf(i)] = mid[i].id) =>
                      robots[i].status = "MOVING"

\* C35's case: the GUI coordinator examined a robot on a lane that a robot
\* travelling the other way held, and set the robot examined to WAITING.
C35_Witness ==
    /\ AfterTick
    /\ gui
    /\ \E i, j \in Ids :
           /\ SetWaiting(i)
           /\ Contend(mid, i, j)
           /\ mid[i].current_lane # mid[j].current_lane
           /\ occupied_lanes[KeyOf(i)] = mid[j].id
           /\ robots[j].status = "MOVING"
====
